---- MODULE Spec2Model ----
(***************************************************************************)
(* The todo Store (the /api/todos/[id] route handlers over the Prisma      *)
(* table) and the client-side Todo Session (TodoProvider and the           *)
(* TodoForm / TodoItem components that call it).                           *)
(*                                                                         *)
(* Spec        : the Store driven by arbitrary HTTP clients.               *)
(* SessionSpec : one browser session (TodoProvider) against the Store.     *)
(*                                                                         *)
(* The collection route /api/todos (list, create) and the Prisma schema    *)
(* are not among the sources; LIST and POST follow the written             *)
(* specification.  updatedAt is maintained by the schema and is not        *)
(* modelled.                                                               *)
(***************************************************************************)
EXTENDS Integers, Sequences, FiniteSets, Bags, TLC

VARIABLES
  db,       \* prisma.todo: id -> record
  nextId,   \* the next id the Store assigns
  net,      \* the requests in flight (a bag)
  resp,     \* the HTTP response a direct client is being sent
  todos,    \* TodoProvider: useState<Todo[]>([])
  loading,  \* TodoProvider: useState(true)
  error,    \* TodoProvider: useState<string | null>(null)
  settled,  \* the promise a context function has just settled for its caller
  events,   \* the user actions, or the direct clients' requests, so far
  fetched,  \* whether the last fetchTodos to finish got its list
  form,     \* TodoForm: title, description, isSubmitting, error, success
  items     \* the mounted TodoItems by key: isEditing, isSubmitting, error

vars == <<db, nextId, net, resp, todos, loading, error, settled, events, fetched,
          form, items>>
storeVars == <<db, nextId>>
contextVars == <<todos, loading, error, settled, fetched>>
componentVars == <<form, items>>
sessionVars == <<contextVars, componentVars>>

---------------------------------------------------------------------------
(* Bounds *)

\* number of ids the Store can assign
MaxTodos == 2
\* number of requests that can be in flight at once
MaxReqs == 2
\* number of user actions (submit, save, toggle, delete, refresh) in a behaviour
MaxEvents == 3
\* number of requests the direct clients make in a behaviour
MaxCalls == 5

Ids == 1..MaxTodos

---------------------------------------------------------------------------
(* Values *)

Users == {"u1", "u2"}
\* getServerSession resolved to null, or to a session without user
NoUser == "none"
Callers == Users \cup {NoUser}

\* JSON null
Null == "null"

Titles == {"", "a", "b"}
Descriptions == {Null, "d"}

\* a JSON object is a function from the keys it has; an absent key is
\* what the handler destructures to undefined
NoBody == <<>>
Has(body, key) == key \in DOMAIN body

\* the bodies the direct clients send with PATCH; the last has a key the
\* handler does not read
PatchBodies ==
  { NoBody,
    [title |-> ""],
    [description |-> Null],
    [completed |-> TRUE], [completed |-> FALSE],
    [title |-> "b", description |-> "d"],
    [title |-> "a", userId |-> "u2"] }

Json(status, body) == [status |-> status, body |-> body]

Error(msg) == [error |-> msg]

\* no response was sent by the last step
NoResp == [method |-> "-", caller |-> NoUser, id |-> 0, status |-> 0, body |-> NoBody]

Response(method, caller, id, r) ==
  [method |-> method, caller |-> caller, id |-> id, status |-> r.status, body |-> r.body]

---------------------------------------------------------------------------
(* Store: prisma.todo *)

Exists(d, id) == id \in DOMAIN d

\* a variant whose completed: true flips the stored flag
UpdateData_flip(rec, data) ==
  [k \in DOMAIN rec |->
     IF k \in DOMAIN data
       THEN IF k = "completed" THEN rec[k] # data[k] ELSE data[k]
       ELSE rec[k]]

\* prisma.todo.update: only the keys present in data are written
UpdateData(rec, data) ==
  [k \in DOMAIN rec |-> IF k \in DOMAIN data THEN data[k] ELSE rec[k]]

\* a variant that writes description whether or not the body has it
PatchData_always(body) ==
  [k \in {f \in {"title", "completed"} : Has(body, f)} \cup {"description"} |->
     IF Has(body, k) THEN body[k] ELSE Null]

\* data: {...(title !== undefined && {title}), ...}
PatchData(body) ==
  [k \in {f \in {"title", "description", "completed"} : Has(body, f)} |-> body[k]]

Without(d, id) == [i \in DOMAIN d \ {id} |-> d[i]]

---------------------------------------------------------------------------
(* Route handlers of /api/todos/[id] *)

\* a variant without the session check
GET_nosession(d, caller, id) ==
  IF ~Exists(d, id)
    THEN Json(404, Error("Todo not found"))
  ELSE IF d[id].userId # caller
    THEN Json(403, Error("You do not have permission to view this todo"))
  ELSE Json(200, d[id])

\* GET: the whole handler; it reads the table once
GET(d, caller, id) ==
  IF caller = NoUser
    THEN Json(401, Error("You must be signed in to view this todo"))
  ELSE IF ~Exists(d, id)
    THEN Json(404, Error("Todo not found"))
  ELSE IF d[id].userId # caller
    THEN Json(403, Error("You do not have permission to view this todo"))
  ELSE Json(200, d[id])

\* a variant that answers 404 for another user's record too
PATCH_check_hiding(d, caller, id) ==
  IF caller = NoUser
    THEN Json(401, Error("You must be signed in to update a todo"))
  ELSE IF ~Exists(d, id) \/ d[id].userId # caller
    THEN Json(404, Error("Todo not found"))
  ELSE Json(0, NoBody)

\* PATCH up to its write: status 0 stands for "goes on to the update"
PATCH_check(d, caller, id) ==
  IF caller = NoUser
    THEN Json(401, Error("You must be signed in to update a todo"))
  ELSE IF ~Exists(d, id)
    THEN Json(404, Error("Todo not found"))
  ELSE IF d[id].userId # caller
    THEN Json(403, Error("You do not have permission to update this todo"))
  ELSE Json(0, NoBody)

\* PATCH from request.json() on: the table after the update
PATCH_db(d, id, body) ==
  IF Exists(d, id) THEN [d EXCEPT ![id] = UpdateData(@, PatchData(body))] ELSE d

\* a variant that refuses a write while another PATCH of the id is pending
PATCH_write_conflict(d, id, body) ==
  IF Exists(d, id)
    THEN IF BagCardinality(net) >= 2 /\ \A q \in BagToSet(net) : q.method = "PATCH" /\ q.id = id
           THEN Json(409, Error("Conflict"))
           ELSE Json(200, PATCH_db(d, id, body)[id])
    ELSE Json(500, Error("Failed to update todo"))

\* prisma.todo.update throws when no record has the id; the catch answers 500
PATCH_write(d, id, body) ==
  IF Exists(d, id)
    THEN Json(200, PATCH_db(d, id, body)[id])
    ELSE Json(500, Error("Failed to update todo"))

\* a variant without the ownership check
DELETE_check_anyone(d, caller, id) ==
  IF caller = NoUser
    THEN Json(401, Error("You must be signed in to delete a todo"))
  ELSE IF ~Exists(d, id)
    THEN Json(404, Error("Todo not found"))
  ELSE Json(0, NoBody)

\* DELETE up to its write: status 0 stands for "goes on to the delete"
DELETE_check(d, caller, id) ==
  IF caller = NoUser
    THEN Json(401, Error("You must be signed in to delete a todo"))
  ELSE IF ~Exists(d, id)
    THEN Json(404, Error("Todo not found"))
  ELSE IF d[id].userId # caller
    THEN Json(403, Error("You do not have permission to delete this todo"))
  ELSE Json(0, NoBody)

\* a variant that keeps the row (a soft delete)
DELETE_db_soft(d, id) == d

\* DELETE from prisma.todo.delete on: the table after the delete
DELETE_db(d, id) == IF Exists(d, id) THEN Without(d, id) ELSE d

\* prisma.todo.delete throws when no record has the id; the catch answers 500
DELETE_write(d, id) ==
  IF Exists(d, id)
    THEN Json(200, [message |-> "Todo deleted successfully"])
    ELSE Json(500, Error("Failed to delete todo"))

---------------------------------------------------------------------------
(* Collection route /api/todos, from the written specification *)

RECURSIVE Descending(_)
Descending(S) ==
  IF S = {} THEN <<>>
  ELSE LET m == CHOOSE x \in S : \A y \in S : y <= x
       IN <<m>> \o Descending(S \ {m})

\* List: the caller's records, newest first
LIST(d, caller) ==
  IF caller = NoUser
    THEN Json(401, Error("Unauthorized"))
    ELSE LET mine == {i \in DOMAIN d : d[i].userId = caller}
             order == Descending({d[i].createdAt : i \in mine})
         IN Json(200, [k \in 1..Len(order) |->
                         d[CHOOSE i \in mine : d[i].createdAt = order[k]]])

RECURSIVE TrimStart(_), TrimEnd(_)
TrimStart(s) ==
  IF Len(s) > 0 /\ SubSeq(s, 1, 1) = " " THEN TrimStart(SubSeq(s, 2, Len(s))) ELSE s
TrimEnd(s) ==
  IF Len(s) > 0 /\ SubSeq(s, Len(s), Len(s)) = " "
    THEN TrimEnd(SubSeq(s, 1, Len(s) - 1)) ELSE s
\* a variant that trims nothing
Trim_nothing(s) == s

\* String.prototype.trim
Trim(s) == TrimEnd(TrimStart(s))

NewTodo(id, caller, body) ==
  [id |-> id, userId |-> caller, title |-> body.title,
   description |-> IF Has(body, "description") THEN body.description ELSE Null,
   completed |-> IF Has(body, "completed") THEN body.completed ELSE FALSE,
   createdAt |-> id]

\* Create: 401 without session, 400 for a missing or blank title
POST(d, next, caller, body) ==
  IF caller = NoUser
    THEN Json(401, Error("Unauthorized"))
  ELSE IF ~Has(body, "title") \/ Trim(body.title) = ""
    THEN Json(400, Error("Title is required"))
  ELSE Json(201, NewTodo(next, caller, body))

POST_db(d, next, caller, body) ==
  IF POST(d, next, caller, body).status = 201
    THEN (next :> NewTodo(next, caller, body)) @@ d
    ELSE d

---------------------------------------------------------------------------
(* Requests in flight *)

\* net is the bag of requests in flight
InFlight == BagToSet(net)
Room == BagCardinality(net) < MaxReqs
\* a variant that issues the request twice
Send_twice(q) == net (+) SetToBag({q}) (+) SetToBag({q})

\* fetch(url, options)
Send(q) == net (+) SetToBag({q})
Drop(q) == net (-) SetToBag({q})

\* pc: "sent" (not yet at the Store), "checked" (a PATCH or DELETE between its
\* ownership check and its write), "done" (answered, or the fetch threw);
\* alive: the component that awaits the call is still mounted
Request(op, method, caller, id, body) ==
  [op |-> op, method |-> method, caller |-> caller, id |-> id, body |-> body,
   pc |-> "sent", status |-> 0, reply |-> NoBody, alive |-> TRUE]

Checked(q, caller) == [q EXCEPT !.pc = "checked", !.caller = caller]
Done(q, caller, r) ==
  [q EXCEPT !.pc = "done", !.caller = caller, !.status = r.status, !.reply = r.body]

\* response.ok
Ok(status) == status \in 200..299

\* no promise is being settled
NoCall == [op |-> "-", id |-> 0, ok |-> FALSE, outcome |-> "-", alive |-> FALSE]

\* TodoForm: useState("") for title and description, useState(false) for
\* isSubmitting, useState(null) for error and success
FormDefault ==
  [title |-> "", description |-> "", isSubmitting |-> FALSE, error |-> Null,
   success |-> Null]

\* TodoItem: useState(false) for isEditing and isSubmitting, useState(null)
\* for error
ItemDefault == [isEditing |-> FALSE, isSubmitting |-> FALSE, error |-> Null]

---------------------------------------------------------------------------
(* Spec: HTTP clients call the Store directly *)

Init ==
  /\ db = <<>>
  /\ nextId = 1
  /\ net = EmptyBag
  /\ resp = NoResp
  /\ todos = <<>>
  /\ loading = TRUE
  /\ error = Null
  /\ settled = NoCall
  /\ events = 0
  /\ fetched = FALSE
  /\ form = FormDefault
  /\ items = <<>>

ApiGET(caller, id) ==
  /\ resp = NoResp
  /\ events < MaxCalls
  /\ events' = events + 1
  /\ resp' = Response("GET", caller, id, GET(db, caller, id))
  /\ UNCHANGED <<storeVars, net, sessionVars>>

ApiLIST(caller) ==
  /\ resp = NoResp
  /\ events < MaxCalls
  /\ events' = events + 1
  /\ resp' = Response("LIST", caller, 0, LIST(db, caller))
  /\ UNCHANGED <<storeVars, net, sessionVars>>

ApiPOST(caller, body) ==
  /\ resp = NoResp
  /\ events < MaxCalls
  /\ events' = events + 1
  /\ nextId <= MaxTodos
  /\ resp' = Response("POST", caller, nextId, POST(db, nextId, caller, body))
  /\ db' = POST_db(db, nextId, caller, body)
  /\ nextId' = IF db' # db THEN nextId + 1 ELSE nextId
  /\ UNCHANGED <<net, sessionVars>>

\* PATCH up to the end of the ownership check
ApiPATCH(caller, id, body) ==
  LET r == PATCH_check(db, caller, id) IN
  /\ resp = NoResp
  /\ events < MaxCalls
  /\ events' = events + 1
  /\ IF r.status # 0
       THEN /\ resp' = Response("PATCH", caller, id, r)
            /\ UNCHANGED net
       ELSE /\ Room
            /\ net' = Send(Checked(Request("api", "PATCH", caller, id, body), caller))
            /\ resp' = NoResp
  /\ UNCHANGED <<storeVars, sessionVars>>

\* DELETE up to the end of the ownership check
ApiDELETE(caller, id) ==
  LET r == DELETE_check(db, caller, id) IN
  /\ resp = NoResp
  /\ events < MaxCalls
  /\ events' = events + 1
  /\ IF r.status # 0
       THEN /\ resp' = Response("DELETE", caller, id, r)
            /\ UNCHANGED net
       ELSE /\ Room
            /\ net' = Send(Checked(Request("api", "DELETE", caller, id, NoBody), caller))
            /\ resp' = NoResp
  /\ UNCHANGED <<storeVars, sessionVars>>

\* the write of a PATCH or DELETE that passed its check, and its answer
ApiWrite(q) ==
  /\ resp = NoResp
  /\ q.pc = "checked"
  /\ q.op = "api"
  /\ IF q.method = "PATCH"
       THEN /\ resp' = Response("PATCH", q.caller, q.id, PATCH_write(db, q.id, q.body))
            /\ db' = PATCH_db(db, q.id, q.body)
       ELSE /\ resp' = Response("DELETE", q.caller, q.id, DELETE_write(db, q.id))
            /\ db' = DELETE_db(db, q.id)
  /\ net' = Drop(q)
  /\ UNCHANGED <<nextId, sessionVars, events>>

\* the client has its response; responses go out one at a time
ApiReceive ==
  /\ resp # NoResp
  /\ resp' = NoResp
  /\ UNCHANGED <<storeVars, net, sessionVars, events>>

Next ==
  \/ \E c \in Callers, i \in Ids : ApiGET(c, i)
  \/ \E c \in Callers : ApiLIST(c)
  \/ \E c \in Callers, t \in Titles : ApiPOST(c, [title |-> t])
  \/ \E c \in Callers, i \in Ids, b \in PatchBodies : ApiPATCH(c, i, b)
  \/ \E c \in Callers, i \in Ids : ApiDELETE(c, i)
  \/ \E q \in InFlight : ApiWrite(q)
  \/ ApiReceive

Spec == Init /\ [][Next]_vars

---------------------------------------------------------------------------
(* TodoProvider: the Session *)

\* the user of the browser session
SessionUser == "u1"

\* what the user types
FormTitles == {"", " ", " a "}
FormDescriptions == {"", " d"}

\* what the create form's two inputs hold at a submit: a blank title, and a
\* title with and without a description
FormInputs == {<<" ", " d">>, <<" a ", "">>, <<" a ", " d">>}

\* the Store's session lookup for a request: the cookie's user, or nobody
\* once the cookie has expired
Resolves(q) == {q.caller, NoUser}

Mutations == {"addTodo", "updateTodo", "deleteTodo", "toggleComplete"}

\* a variant in which a failed delete sets no message
FailureText_silent(op) ==
  CASE op = "fetchTodos" -> "Failed to load todos. Please try again later."
    [] op = "addTodo" -> "Failed to create todo. Please try again."
    [] op = "updateTodo" -> "Failed to update todo. Please try again."
    [] op = "toggleComplete" -> "Failed to update todo. Please try again."
    [] op = "deleteTodo" -> Null

FailureText(op) ==
  CASE op = "fetchTodos" -> "Failed to load todos. Please try again later."
    [] op = "addTodo" -> "Failed to create todo. Please try again."
    [] op = "updateTodo" -> "Failed to update todo. Please try again."
    [] op = "toggleComplete" -> "Failed to update todo. Please try again."
    [] op = "deleteTodo" -> "Failed to delete todo. Please try again."

\* a variant that appends
AddFront_back(prevTodos, newTodo) == prevTodos \o <<newTodo>>

\* setTodos(prevTodos => [newTodo, ...prevTodos])
AddFront(prevTodos, newTodo) == <<newTodo>> \o prevTodos

\* a variant that inserts the record when no entry has the id
ReplaceById_upsert(prevTodos, id, updatedTodo) ==
  IF \E i \in 1..Len(prevTodos) : prevTodos[i].id = id
  THEN [i \in 1..Len(prevTodos) |-> IF prevTodos[i].id = id THEN updatedTodo ELSE prevTodos[i]]
  ELSE <<updatedTodo>> \o prevTodos

\* setTodos(prevTodos => prevTodos.map(todo => (todo.id === id ? updatedTodo : todo)))
ReplaceById(prevTodos, id, updatedTodo) ==
  [i \in 1..Len(prevTodos) |-> IF prevTodos[i].id = id THEN updatedTodo ELSE prevTodos[i]]

\* setTodos(prevTodos => prevTodos.filter(todo => todo.id !== id))
RemoveById(prevTodos, id) ==
  LET Keep(todo) == todo.id # id IN SelectSeq(prevTodos, Keep)

\* a variant whose fetchTodos keeps the entries it finds
Patched_merged(prevTodos, q) ==
  CASE q.op = "fetchTodos" -> prevTodos \o q.reply
    [] q.op = "addTodo" -> AddFront(prevTodos, q.reply)
    [] q.op = "updateTodo" -> ReplaceById(prevTodos, q.id, q.reply)
    [] q.op = "toggleComplete" -> ReplaceById(prevTodos, q.id, q.reply)
    [] q.op = "deleteTodo" -> RemoveById(prevTodos, q.id)

\* the list after the response q of a successful call is handled
Patched(prevTodos, q) ==
  CASE q.op = "fetchTodos" -> q.reply
    [] q.op = "addTodo" -> AddFront(prevTodos, q.reply)
    [] q.op = "updateTodo" -> ReplaceById(prevTodos, q.id, q.reply)
    [] q.op = "toggleComplete" -> ReplaceById(prevTodos, q.id, q.reply)
    [] q.op = "deleteTodo" -> RemoveById(prevTodos, q.id)

\* a variant whose catch block empties the list
Retained_cleared(prevTodos, q) == <<>>

\* the list after a failed call is handled: no catch block calls setTodos
Retained(prevTodos, q) == prevTodos

\* a variant whose catch blocks do not re-throw
Outcome_swallowed(q) == "resolved"

\* fetchTodos swallows the error; the four mutations re-throw it
Outcome(q) ==
  IF Ok(q.status) \/ q.op = "fetchTodos" THEN "resolved" ELSE "rejected"

\* the keys TodoList renders a TodoItem for
Shown(list, busy, err) ==
  IF busy \/ err # Null THEN {} ELSE {list[i].id : i \in DOMAIN list}

\* the positions of the list whose TodoItem is rendered
Rendered == IF loading \/ error # Null THEN {} ELSE DOMAIN todos

\* the TodoItems after a render: an item whose key stays keeps its state, a
\* new one starts from its defaults
Mount(its, ids) == [id \in ids |-> IF id \in DOMAIN its THEN its[id] ELSE ItemDefault]

\* the requests once the TodoItems with keys ids are unmounted: a handleSave
\* that still awaits its updateTodo sets the state of no mounted component
Orphaned(n, ids) ==
  LET f(q) == IF q.op = "updateTodo" /\ q.id \in ids
                THEN [q EXCEPT !.alive = FALSE] ELSE q
      qs == BagToSet(n)
  IN [t \in {f(q) : q \in qs} |->
        (IF t \in qs THEN n[t] ELSE 0)
        + (LET twin == [t EXCEPT !.alive = TRUE]
           IN IF twin # t /\ twin \in qs /\ f(twin) = t THEN n[twin] ELSE 0)]

\* creates that have not reached the Store yet
Creating == {q \in InFlight : q.op = "addTodo" /\ q.pc = "sent"}

SInit ==
  /\ db = <<>>
  /\ nextId = 1
  /\ net = SetToBag({Request("fetchTodos", "LIST", SessionUser, 0, NoBody)})
  /\ resp = NoResp
  /\ todos = <<>>
  /\ loading = TRUE
  /\ error = Null
  /\ settled = NoCall
  /\ events = 0
  /\ fetched = FALSE
  /\ form = FormDefault
  /\ items = <<>>

\* fetchTodos up to its await; TodoList shows its loading placeholder
fetchTodos ==
  /\ settled = NoCall
  /\ events < MaxEvents
  /\ Room
  /\ loading' = TRUE
  /\ items' = Mount(items, Shown(todos, TRUE, error))
  /\ net' = Orphaned(Send(Request("fetchTodos", "LIST", SessionUser, 0, NoBody)),
                     DOMAIN items)
  /\ events' = events + 1
  /\ UNCHANGED <<storeVars, resp, todos, error, settled, fetched, form>>

refreshTodos == fetchTodos

\* addTodo up to its await
addTodo(todoData) ==
  /\ settled = NoCall
  /\ events < MaxEvents
  /\ Room
  /\ nextId + Cardinality(Creating) <= MaxTodos
  /\ net' = Send(Request("addTodo", "POST", SessionUser, 0, todoData))
  /\ events' = events + 1
  /\ UNCHANGED <<storeVars, resp, contextVars>>

\* updateTodo up to its await
updateTodo(id, updates) ==
  /\ settled = NoCall
  /\ events < MaxEvents
  /\ Room
  /\ net' = Send(Request("updateTodo", "PATCH", SessionUser, id, updates))
  /\ events' = events + 1
  /\ UNCHANGED <<storeVars, resp, contextVars>>

\* deleteTodo up to its await
deleteTodo(id) ==
  /\ settled = NoCall
  /\ events < MaxEvents
  /\ Room
  /\ net' = Send(Request("deleteTodo", "DELETE", SessionUser, id, NoBody))
  /\ events' = events + 1
  /\ UNCHANGED <<storeVars, resp, contextVars>>

\* toggleComplete up to its await
toggleComplete(id, completed) ==
  /\ settled = NoCall
  /\ events < MaxEvents
  /\ Room
  /\ net' = Send(Request("toggleComplete", "PATCH", SessionUser, id,
                         [completed |-> ~completed]))
  /\ events' = events + 1
  /\ UNCHANGED <<storeVars, resp, contextVars>>

\* description.trim() || null
OrNull(s) == IF s = "" THEN Null ELSE s

\* TodoForm.handleSubmit up to its return or its await, with title and
\* description as the inputs' onChange left them; the form's inputs and its
\* button are disabled while isSubmitting
handleSubmit(title, description) ==
  /\ settled = NoCall
  /\ ~form.isSubmitting
  /\ IF Trim(title) = ""
       THEN /\ form' = [form EXCEPT !.title = title, !.description = description,
                                    !.error = "Title is required"]
            /\ UNCHANGED <<storeVars, net, resp, contextVars, events>>
       ELSE /\ form' = [form EXCEPT !.title = title, !.description = description,
                                    !.isSubmitting = TRUE, !.error = Null]
            /\ addTodo([title |-> Trim(title),
                        description |-> OrNull(Trim(description)),
                        completed |-> FALSE])
  /\ UNCHANGED items

\* a variant that clears the inputs after a failed create too
Submitted_cleared(f, ok) ==
  IF ok
    THEN [f EXCEPT !.title = "", !.description = "",
                   !.success = "Todo added successfully!", !.isSubmitting = FALSE]
    ELSE [f EXCEPT !.title = "", !.description = "",
                   !.error = "Failed to create todo. Please try again.",
                   !.isSubmitting = FALSE]

\* TodoForm.handleSubmit after its await: the form once addTodo resolved (ok)
\* or rejected
Submitted(f, ok) ==
  IF ok
    THEN [f EXCEPT !.title = "", !.description = "",
                   !.success = "Todo added successfully!", !.isSubmitting = FALSE]
    ELSE [f EXCEPT !.error = "Failed to create todo. Please try again.",
                   !.isSubmitting = FALSE]

\* the timer handleSubmit sets after a successful create: setSuccess(null)
clearSuccess ==
  /\ settled = NoCall
  /\ form.success # Null
  /\ form' = [form EXCEPT !.success = Null]
  /\ UNCHANGED <<storeVars, net, resp, contextVars, events, items>>

\* the Edit button of the i-th rendered item, disabled once it is completed
handleEdit(i) ==
  /\ settled = NoCall
  /\ i \in Rendered
  /\ ~items[todos[i].id].isEditing
  /\ ~todos[i].completed
  /\ items' = [items EXCEPT ![todos[i].id].isEditing = TRUE]
  /\ UNCHANGED <<storeVars, net, resp, contextVars, events, form>>

\* the Cancel button of the i-th rendered item's edit form
handleCancel(i) ==
  /\ settled = NoCall
  /\ i \in Rendered
  /\ items[todos[i].id].isEditing
  /\ ~items[todos[i].id].isSubmitting
  /\ items' = [items EXCEPT ![todos[i].id].isEditing = FALSE,
                            ![todos[i].id].error = Null]
  /\ UNCHANGED <<storeVars, net, resp, contextVars, events, form>>

\* TodoItem.handleSave of the i-th rendered item, up to its return or its
\* await; the Save button belongs to the edit form and is disabled while
\* isSubmitting
handleSave(i, editedTitle, editedDescription) ==
  /\ settled = NoCall
  /\ i \in Rendered
  /\ items[todos[i].id].isEditing
  /\ ~items[todos[i].id].isSubmitting
  /\ IF Trim(editedTitle) = ""
       THEN /\ items' = [items EXCEPT ![todos[i].id].error = "Title cannot be empty"]
            /\ UNCHANGED <<storeVars, net, resp, contextVars, events>>
       ELSE /\ items' = [items EXCEPT ![todos[i].id].isSubmitting = TRUE,
                                      ![todos[i].id].error = Null]
            /\ updateTodo(todos[i].id,
                          [title |-> Trim(editedTitle),
                           description |-> OrNull(Trim(editedDescription))])
  /\ UNCHANGED form

\* the checkbox of the i-th rendered item; the edit form has none
onChange(i) ==
  /\ i \in Rendered
  /\ ~items[todos[i].id].isEditing
  /\ toggleComplete(todos[i].id, todos[i].completed)
  /\ UNCHANGED componentVars

\* the Delete button of the i-th rendered item; the edit form has none
onClickDelete(i) ==
  /\ i \in Rendered
  /\ ~items[todos[i].id].isEditing
  /\ deleteTodo(todos[i].id)
  /\ UNCHANGED componentVars

\* the Store takes a Session request up to its answer or, for PATCH and
\* DELETE, up to the end of the ownership check
Serve(q, caller) ==
  /\ q.pc = "sent"
  /\ q.op # "api"
  /\ caller \in Resolves(q)
  /\ CASE q.method = "LIST" ->
            /\ net' = Drop(q) (+) SetToBag({Done(q, caller, LIST(db, caller))})
            /\ UNCHANGED storeVars
       [] q.method = "POST" ->
            /\ nextId <= MaxTodos
            /\ net' = Drop(q) (+) SetToBag({Done(q, caller, POST(db, nextId, caller, q.body))})
            /\ db' = POST_db(db, nextId, caller, q.body)
            /\ nextId' = IF db' # db THEN nextId + 1 ELSE nextId
       [] q.method = "PATCH" ->
            /\ LET r == PATCH_check(db, caller, q.id) IN
                 net' = Drop(q) (+) SetToBag({IF r.status # 0 THEN Done(q, caller, r)
                                                               ELSE Checked(q, caller)})
            /\ UNCHANGED storeVars
       [] q.method = "DELETE" ->
            /\ LET r == DELETE_check(db, caller, q.id) IN
                 net' = Drop(q) (+) SetToBag({IF r.status # 0 THEN Done(q, caller, r)
                                                               ELSE Checked(q, caller)})
            /\ UNCHANGED storeVars
  /\ UNCHANGED <<resp, sessionVars, events>>

\* the write of a Session PATCH or DELETE that passed its check, and its answer
Write(q) ==
  /\ q.pc = "checked"
  /\ q.op # "api"
  /\ IF q.method = "PATCH"
       THEN /\ net' = Drop(q) (+) SetToBag({Done(q, q.caller, PATCH_write(db, q.id, q.body))})
            /\ db' = PATCH_db(db, q.id, q.body)
       ELSE /\ net' = Drop(q) (+) SetToBag({Done(q, q.caller, DELETE_write(db, q.id))})
            /\ db' = DELETE_db(db, q.id)
  /\ UNCHANGED <<nextId, resp, sessionVars, events>>

\* fetch rejects: the request never reached the Store
Throws(q) ==
  /\ q.pc = "sent"
  /\ q.op # "api"
  /\ net' = Drop(q) (+) SetToBag({[q EXCEPT !.pc = "done"]})
  /\ UNCHANGED <<storeVars, resp, sessionVars, events>>

\* a context function from its await to its end, and the render of TodoList
\* that its state updates cause
Settle(q) ==
  /\ settled = NoCall
  /\ q.pc = "done"
  /\ q.op # "api"
  /\ todos' = IF Ok(q.status) THEN Patched(todos, q) ELSE Retained(todos, q)
  /\ error' = IF Ok(q.status) THEN Null ELSE FailureText(q.op)
  /\ loading' = IF q.op = "fetchTodos" THEN FALSE ELSE loading
  /\ items' = Mount(items, Shown(todos', loading', error'))
  /\ net' = Orphaned(Drop(q), DOMAIN items \ DOMAIN items')
  /\ settled' = [op |-> q.op, id |-> q.id, ok |-> Ok(q.status), outcome |-> Outcome(q),
                 alive |-> q.alive /\ (q.op = "updateTodo" => q.id \in DOMAIN items')]
  /\ fetched' = IF q.op = "fetchTodos" THEN Ok(q.status) ELSE fetched
  /\ UNCHANGED <<storeVars, resp, events, form>>

\* the component's continuation after its await (handleSubmit, handleSave) runs
\* before any other event is handled; setState of an unmounted TodoItem does
\* nothing
Continue ==
  /\ settled # NoCall
  /\ settled' = NoCall
  /\ form' = IF settled.op = "addTodo" THEN Submitted(form, settled.ok) ELSE form
  /\ items' = IF settled.op = "updateTodo" /\ settled.alive /\ settled.id \in DOMAIN items
                THEN [items EXCEPT ![settled.id] =
                        [isEditing |-> IF settled.ok THEN FALSE ELSE @.isEditing,
                         isSubmitting |-> FALSE,
                         error |-> IF settled.ok THEN @.error
                                   ELSE "Failed to update todo. Please try again."]]
                ELSE items
  /\ UNCHANGED <<storeVars, net, resp, todos, loading, error, events, fetched>>

SNext ==
  \/ refreshTodos
  \/ \E typed \in FormInputs : handleSubmit(typed[1], typed[2])
  \/ clearSuccess
  \/ \E i \in Rendered : handleEdit(i)
  \/ \E i \in Rendered : handleCancel(i)
  \/ \E i \in Rendered, t \in FormTitles, d \in FormDescriptions : handleSave(i, t, d)
  \/ \E i \in Rendered : onChange(i)
  \/ \E i \in Rendered : onClickDelete(i)
  \/ \E q \in InFlight, c \in Callers : Serve(q, c)
  \/ \E q \in InFlight : Write(q)
  \/ \E q \in InFlight : Throws(q)
  \/ \E q \in InFlight : Settle(q)
  \/ Continue

SessionSpec == SInit /\ [][SNext]_vars

---------------------------------------------------------------------------
(* The Store's contract, under Spec *)

ItemMethods == {"GET", "PATCH", "DELETE"}

\* the requests that pass their ownership check in this step
Admitted == {q \in BagToSet(net') : CopiesIn(q, net') > CopiesIn(q, net)}

\* the step answers a request at its lookup: GET, or a PATCH or DELETE that
\* fails its check
AnswersAtLookup ==
  /\ resp' # NoResp
  /\ resp'.method \in ItemMethods
  /\ net' = net

\* the step is the write of the checked request q
Writes(q) == q.pc = "checked" /\ net' = Drop(q) /\ resp' # NoResp

\* the id was assigned and has no record: its record was deleted
Gone(id) == id < nextId /\ ~Exists(db, id)

\* C1: for an authenticated caller GET, PATCH and DELETE answer 403 exactly
\* when the looked-up record exists and belongs to somebody else, 404
\* exactly when the lookup finds no record, and success only when the record
\* exists and belongs to the caller.
C1_Step ==
  /\ AnswersAtLookup /\ resp'.caller \in Users =>
       /\ resp'.status = 404 <=> ~Exists(db, resp'.id)
       /\ resp'.status = 403 <=>
            Exists(db, resp'.id) /\ db[resp'.id].userId # resp'.caller
       /\ Ok(resp'.status) <=>
            Exists(db, resp'.id) /\ db[resp'.id].userId = resp'.caller
       /\ resp'.status \in {200, 403, 404}
  /\ \A q \in Admitted :
       q.method \in {"PATCH", "DELETE"} =>
         Exists(db, q.id) /\ db[q.id].userId = q.caller /\ q.caller \in Users
  /\ \A q \in InFlight :
       Writes(q) /\ Ok(resp'.status) =>
         Exists(db, q.id) /\ db[q.id].userId = resp'.caller /\ resp'.id = q.id

C1_OwnershipDecides == [][C1_Step]_vars

\* a PATCH by somebody who does not own the record has been answered 403
C1_Witness ==
  /\ resp.method = "PATCH"
  /\ resp.status = 403
  /\ resp.caller \in Users
  /\ Exists(db, resp.id)

\* C2: a record changes or disappears only in the write of a PATCH or DELETE
\* made by its owner and answered 200; a request answered 401, 403 or 404
\* leaves the table as it is.
C2_Step ==
  /\ \A id \in DOMAIN db :
       (~Exists(db', id) \/ db'[id] # db[id]) =>
         /\ resp'.method \in {"PATCH", "DELETE"}
         /\ resp'.status = 200
         /\ resp'.id = id
         /\ resp'.caller = db[id].userId
  /\ resp'.status \in {401, 403, 404} => db' = db

C2_OwnerOnlyWrites == [][C2_Step]_vars

\* a DELETE by somebody else was refused and the record is still there,
\* while its owner has changed it before
C2_Witness ==
  /\ resp.method = "DELETE"
  /\ resp.status = 403
  /\ Exists(db, resp.id)
  /\ db[resp.id].completed

\* C3: without a session GET, PATCH and DELETE answer 401 with an error body,
\* whatever the table holds, and write nothing: no such request gets past the
\* check.
C3_Step ==
  /\ resp'.method \in ItemMethods /\ resp'.caller = NoUser =>
       /\ resp'.status = 401
       /\ DOMAIN resp'.body = {"error"}
       /\ db' = db
  /\ \A q \in Admitted : q.caller # NoUser

C3_Unauthenticated401 == [][C3_Step]_vars

\* a GET without session on an existing record has been answered 401
C3_Witness ==
  /\ resp.method = "GET"
  /\ resp.caller = NoUser
  /\ resp.status = 401
  /\ Exists(db, resp.id)

\* C4: a DELETE answered 200 leaves the id without record, an id without
\* record never gets one again, and a GET of it by any authenticated caller
\* answers 404.
C4_Step ==
  \A id \in Ids :
    /\ resp'.method = "DELETE" /\ resp'.status = 200 /\ resp'.id = id => Gone(id)'
    /\ Gone(id) => Gone(id)'
    /\ Gone(id) /\ resp'.method = "GET" /\ resp'.id = id /\ resp'.caller \in Users =>
         resp'.status = 404

C4_DeletedStaysDeleted == [][C4_Step]_vars

\* a GET of a deleted id has been answered 404 while a PATCH of the same id,
\* admitted before the delete, still waits for its write
C4_Witness ==
  /\ resp.method = "GET"
  /\ resp.caller \in Users
  /\ resp.status = 404
  /\ Gone(resp.id)
  /\ \E q \in InFlight : q.method = "PATCH" /\ q.id = resp.id

\* C5: the write of a PATCH answered 200 sets each of title, description and
\* completed that the body has to the body's value, leaves the other ones,
\* id, userId and createdAt as they were, answers with the record as written,
\* and changes no other record.
C5_Step ==
  \A q \in InFlight :
    Writes(q) /\ q.method = "PATCH" /\ resp'.status = 200 =>
      /\ DOMAIN db' = DOMAIN db
      /\ \A k \in {"title", "description", "completed"} :
           db'[q.id][k] = IF Has(q.body, k) THEN q.body[k] ELSE db[q.id][k]
      /\ \A k \in {"id", "userId", "createdAt"} : db'[q.id][k] = db[q.id][k]
      /\ \A other \in DOMAIN db \ {q.id} : db'[other] = db[other]
      /\ resp'.body = db'[q.id]

C5_PatchWritesGivenFields == [][C5_Step]_vars

\* a PATCH of completed alone was answered 200 for a record that has a
\* description, while a second record exists
C5_Witness ==
  /\ resp.method = "PATCH"
  /\ resp.status = 200
  /\ resp.body.completed
  /\ resp.body.description = "d"
  /\ Cardinality(DOMAIN db) = 2

\* C6: every record of the table has a non-empty title.
C6_TitleNeverEmpty == \A id \in DOMAIN db : db[id].title # ""

\* C16: no PATCH or DELETE of an authenticated caller is answered 500: one
\* whose id has no record when its write executes is answered 404.
C16_MissingRecordIs404 ==
  resp.method \in {"PATCH", "DELETE"} /\ resp.caller \in Users => resp.status # 500

\* the PATCH requests of the id of q that passed their check together with
\* q and still wait for their write
Rivals(q) == {r \in BagToSet(Drop(q)) : r.method = "PATCH" /\ r.id = q.id /\ r.pc = "checked"}

\* C17: when PATCH requests of one record are past their checks together,
\* each write, the first as the last, finds the record and is answered 200
\* whatever the others wrote or will write, stores
\* the request's value in every field the request provides and keeps, in the
\* other fields, what the writes before it left; the requests still waiting
\* stay as they are.  So a field two requests provide ends with the value of
\* the one written last, and a field one request provides with that one's.
C17_Step ==
  \A q \in InFlight :
    Writes(q) /\ q.method = "PATCH" /\ Exists(db, q.id) =>
      /\ resp'.status = 200
      /\ resp'.caller = q.caller
      /\ \A k \in {"title", "description", "completed"} :
           /\ Has(q.body, k) => db'[q.id][k] = q.body[k]
           /\ ~Has(q.body, k) => db'[q.id][k] = db[q.id][k]
      /\ \A r \in Rivals(q) : r \in BagToSet(net') /\ Exists(db', r.id)

C17_LastWriteWins == [][C17_Step]_vars

\* of two PATCH requests past their checks together the first was written
\* and answered 200; the second, with another title, still waits for its write
C17_Witness ==
  /\ resp.method = "PATCH"
  /\ resp.status = 200
  /\ \E r \in InFlight :
       /\ r.method = "PATCH" /\ r.id = resp.id /\ r.pc = "checked"
       /\ Has(r.body, "title")
       /\ r.body.title # resp.body.title
       /\ resp.body.title = "b" /\ resp.body.description = "d"

\* C19: an authenticated caller gets the same answer to GET, PATCH and DELETE
\* of an id whose record belongs to somebody else as with the same table
\* without that record.
C19_NoExistenceLeak ==
  \A caller \in Users, id \in DOMAIN db :
    db[id].userId # caller =>
      /\ GET(db, caller, id) = GET(Without(db, id), caller, id)
      /\ PATCH_check(db, caller, id) = PATCH_check(Without(db, id), caller, id)
      /\ DELETE_check(db, caller, id) = DELETE_check(Without(db, id), caller, id)

---------------------------------------------------------------------------
(* The Session's contract, under SessionSpec *)

\* the step is the continuation of a context function on the response q
Settles(q) ==
  /\ q.pc = "done"
  /\ q.op # "api"
  /\ CopiesIn(q, net') < CopiesIn(q, net)
  /\ settled = NoCall
  /\ settled' # NoCall
  /\ settled'.op = q.op
  /\ settled'.id = q.id
  /\ settled'.ok = Ok(q.status)

\* the message each mutation's catch block sets
C7_Text(op) ==
  CASE op = "addTodo" -> "Failed to create todo. Please try again."
    [] op = "deleteTodo" -> "Failed to delete todo. Please try again."
    [] OTHER -> "Failed to update todo. Please try again."

\* C7: when addTodo, updateTodo, deleteTodo or toggleComplete gets a
\* non-success response or its fetch throws, handling the failure leaves the
\* list untouched, sets error to the operation's failure text and rejects the
\* promise; the list changes only when a successful response is handled.
C7_Step ==
  /\ \A q \in InFlight :
       Settles(q) /\ q.op \in Mutations /\ ~Ok(q.status) =>
         /\ todos' = todos
         /\ error' = C7_Text(q.op)
         /\ settled'.op = q.op
         /\ settled'.outcome = "rejected"
  /\ todos' # todos => \E q \in InFlight : Settles(q) /\ Ok(q.status)

C7_FailedMutationKeepsList == [][C7_Step]_vars

\* a mutation has just failed with a list that is not empty
C7_Witness ==
  /\ settled.op \in Mutations
  /\ ~settled.ok
  /\ settled.outcome = "rejected"
  /\ error = C7_Text(settled.op)
  /\ todos # <<>>

\* C8 as written: after a failed list fetch the list is empty and error is set.
C8_FailedFetchEmptiesList ==
  settled.op = "fetchTodos" /\ ~settled.ok => todos = <<>> /\ error # Null

\* C8: a failed list fetch (the initial load or refreshTodos) leaves the list
\* as it was, sets the error message and ends loading.
C8_Step ==
  \A q \in InFlight :
    Settles(q) /\ q.op = "fetchTodos" /\ ~Ok(q.status) =>
      /\ todos' = todos
      /\ error' = "Failed to load todos. Please try again later."
      /\ loading' = FALSE
      /\ settled'.outcome = "resolved"

C8_FailedFetchKeepsList == [][C8_Step]_vars

\* a list fetch has just failed and the list still holds what it held
C8_Witness ==
  /\ settled.op = "fetchTodos"
  /\ ~settled.ok
  /\ todos # <<>>
  /\ error # Null
  /\ ~loading

RECURSIVE Others(_, _)
\* the entries of list whose id is not id, in their order
Others(list, id) ==
  IF list = <<>> THEN <<>>
  ELSE IF Head(list).id = id THEN Others(Tail(list), id)
  ELSE <<Head(list)>> \o Others(Tail(list), id)

\* C9: handling a successful response patches the list L it finds: addTodo
\* gives the new record followed by L; updateTodo and toggleComplete give L
\* with the returned record at each position whose entry has the id;
\* deleteTodo gives the entries of L with another id, in their order.
C9_Step ==
  \A q \in InFlight :
    Settles(q) /\ Ok(q.status) =>
      CASE q.op = "addTodo" ->
             /\ Len(todos') = Len(todos) + 1
             /\ todos'[1] = q.reply
             /\ \A i \in DOMAIN todos : todos'[i + 1] = todos[i]
        [] q.op \in {"updateTodo", "toggleComplete"} ->
             /\ Len(todos') = Len(todos)
             /\ \A i \in DOMAIN todos :
                  todos'[i] = IF todos[i].id = q.id THEN q.reply ELSE todos[i]
        [] q.op = "deleteTodo" ->
             /\ todos' = Others(todos, q.id)
             /\ Len(todos') <= Len(todos)
        [] OTHER -> TRUE

C9_ListPatched == [][C9_Step]_vars

\* a delete has just succeeded and another entry is still in the list
C9_Witness ==
  /\ settled.op = "deleteTodo"
  /\ settled.ok
  /\ todos # <<>>
  /\ \A i \in DOMAIN todos : todos[i].id # settled.id

\* the records the Store holds for the Session's user
Mine == {db[i] : i \in {j \in DOMAIN db : db[j].userId = SessionUser}}

\* C10: with no request in flight and the last list fetch successful, the
\* list holds exactly the Store's records of the user.
C10_SessionMirrorsStore ==
  net = EmptyBag /\ settled = NoCall /\ fetched =>
    /\ {todos[i] : i \in DOMAIN todos} = Mine
    /\ Len(todos) = Cardinality(Mine)

\* the mutation requests in flight: sent and not yet applied to the list
MutationsInFlight == {q \in InFlight : q.op \in Mutations}

\* C11: at most one mutation request (create, update, toggle or delete) of the
\* Session is in flight at any time.
C11_OneMutationInFlight ==
  \A q1, q2 \in MutationsInFlight : q1 = q2 /\ CopiesIn(q1, net) = 1

\* two toggles of the same todo whose successful responses both wait to be
\* applied: both were triggered before either response reached the list
BothToggled(q1, q2) ==
  /\ q1.op = "toggleComplete" /\ q2.op = "toggleComplete"
  /\ q1.id = q2.id
  /\ q1 # q2 \/ CopiesIn(q1, net) >= 2
  /\ q1.pc = "done" /\ q2.pc = "done"
  /\ Ok(q1.status) /\ Ok(q2.status)

\* C12: after two successful toggles of a todo, the second triggered before
\* the first response was applied, the Store's completed value is the one the
\* todo had before the first toggle: the value the item rendered when that
\* toggle was triggered, which is the negation of what the toggle sent.
C12_DoubleToggleRestores ==
  \A q1, q2 \in InFlight :
    BothToggled(q1, q2) /\ Exists(db, q1.id) =>
      db[q1.id].completed \in {~q1.body.completed, ~q2.body.completed}

\* the copies of request q in n, whether their caller is still mounted or not
Copies(q, n) ==
  CopiesIn([q EXCEPT !.alive = TRUE], n) + CopiesIn([q EXCEPT !.alive = FALSE], n)

\* the requests this step issues
Issued ==
  {[q EXCEPT !.alive = TRUE] :
     q \in {r \in BagToSet(net') : r.pc = "sent" /\ Copies(r, net') > Copies(r, net)}}

\* the endpoint each context function calls
C13_Endpoint(q) ==
  CASE q.op = "fetchTodos" -> q.method = "LIST" /\ q.id = 0
    [] q.op = "addTodo" -> q.method = "POST" /\ q.id = 0
    [] q.op = "updateTodo" -> q.method = "PATCH" /\ q.id \in Ids
    [] q.op = "toggleComplete" -> q.method = "PATCH" /\ q.id \in Ids
    [] q.op = "deleteTodo" -> q.method = "DELETE" /\ q.id \in Ids
    [] OTHER -> FALSE

\* C13: the mount issues one GET /api/todos; every invocation of a context
\* function issues exactly one request, to its own endpoint; no other step
\* issues a request, and handling a response, failed or not, takes that
\* request away and issues nothing.
C13_Step ==
  LET more == BagCardinality(net') - BagCardinality(net) IN
  /\ events' = events + 1 =>
       /\ more = 1
       /\ Cardinality(Issued) = 1
       /\ \A q \in Issued : C13_Endpoint(q) /\ q.caller = SessionUser
  /\ events' = events => more <= 0 /\ Issued = {}
  /\ \A q \in InFlight : Settles(q) => more = -1

C13_OneRequestPerCall ==
  /\ BagCardinality(net) = 1
  /\ \A q \in InFlight : q.op = "fetchTodos" /\ C13_Endpoint(q) /\ q.pc = "sent"
  /\ [][C13_Step]_vars

\* a mutation has failed, its failure has been handled, and no request is in
\* flight
C13_Witness ==
  /\ settled.op \in Mutations
  /\ ~settled.ok
  /\ net = EmptyBag
  /\ events >= 1

\* a fetchTodos call has not completed yet
Fetching == \E q \in InFlight : q.op = "fetchTodos"

\* C14 as written, for the initial fetch (a create is the only user action so
\* far, so no refresh was made): when it fails the Session is in error with
\* an empty list.
C14_InitialFailureEmpty ==
  settled.op = "fetchTodos" /\ ~settled.ok /\ events = 1 /\ nextId = 2 =>
    ~loading /\ error # Null /\ todos = <<>>

\* C14: the Session starts loading with an empty list and no error; a fetch
\* that completes successfully leaves loading false, error null and the
\* fetched list; one that fails leaves loading false, the load error and the
\* list as it was; loading changes at the start and at the completion of a
\* fetch only, and it is true only while a fetch has not completed.
C14_Step ==
  /\ \A q \in InFlight :
       Settles(q) /\ q.op = "fetchTodos" =>
         /\ ~loading'
         /\ IF Ok(q.status)
              THEN error' = Null /\ todos' = q.reply
              ELSE error' = "Failed to load todos. Please try again later."
                   /\ todos' = todos
  /\ loading' /\ ~loading => \E q \in Issued : q.op = "fetchTodos"
  /\ ~loading' /\ loading => \E q \in InFlight : Settles(q) /\ q.op = "fetchTodos"

C14_LoadingMachine ==
  /\ loading = TRUE /\ todos = <<>> /\ error = Null
  /\ [](loading => Fetching)
  /\ [][C14_Step]_vars

\* the initial fetch has just failed, after a create made while it was
\* loading had put its record in the list
C14_Witness ==
  /\ settled.op = "fetchTodos"
  /\ ~settled.ok
  /\ events = 1
  /\ nextId = 2
  /\ ~loading
  /\ error = "Failed to load todos. Please try again later."
  /\ Len(todos) = 1

\* C15: the Session's list is ordered newest first: no entry was created
\* before an entry that follows it, so after two creates A then B the record
\* of B stands before the record of A.
C15_NewestFirst ==
  \A i, j \in DOMAIN todos : i < j => todos[i].createdAt >= todos[j].createdAt

\* in a loaded Session two creates have succeeded one after the other and the
\* list holds the second record before the first
C15_Witness ==
  /\ fetched
  /\ settled.op = "addTodo"
  /\ settled.ok
  /\ Len(todos) = 2
  /\ todos[1].createdAt > todos[2].createdAt
  /\ todos[1] = db[2]
  /\ todos[2] = db[1]

\* the title has a first and a last character and neither is a blank
Trimmed(title) ==
  /\ Len(title) > 0
  /\ SubSeq(title, 1, 1) # " "
  /\ SubSeq(title, Len(title), Len(title)) # " "

\* the requests the two forms send
FormRequests == {q \in InFlight : q.op \in {"addTodo", "updateTodo"}}

\* C18: every title the create form and the edit form send is trimmed and not
\* empty, and so is every title in the Store; a step that makes the create
\* form show "Title is required", or an edit form show "Title cannot be
\* empty", issues no request, changes neither the list nor the Store, and
\* leaves the edit form open.
C18_Step ==
  /\ form'.error = "Title is required" /\ form'.error # form.error =>
       /\ net' = net
       /\ db' = db
       /\ todos' = todos
       /\ ~form'.isSubmitting
  /\ \A id \in DOMAIN items' :
       /\ items'[id].error = "Title cannot be empty"
       /\ id \in DOMAIN items => items[id].error # items'[id].error
       => /\ net' = net
          /\ db' = db
          /\ todos' = todos
          /\ id \in DOMAIN items
          /\ items[id].isEditing
          /\ items'[id].isEditing
          /\ ~items'[id].isSubmitting

C18_BlankTitleRejected ==
  /\ [](\A q \in FormRequests : Trimmed(q.body.title))
  /\ [](\A id \in DOMAIN db : Trimmed(db[id].title))
  /\ [][C18_Step]_vars

\* both forms show their message for a blank title, the edit form is open,
\* nothing is in flight and the Store holds the one record created before
C18_Witness ==
  /\ form.error = "Title is required"
  /\ \E id \in DOMAIN items :
       items[id].error = "Title cannot be empty" /\ items[id].isEditing
  /\ net = EmptyBag
  /\ events = 1
  /\ Cardinality(DOMAIN db) = 1

\* the step in which handleSave resumes after its updateTodo call
SaveCompletes == settled.op = "updateTodo" /\ settled' = NoCall

\* C20: once an updateTodo made from an item's edit form has completed, the
\* item is not submitting; if the call failed its edit form is still open and
\* shows the failure message, if it succeeded the form is closed; while the
\* call is in flight the form's item is submitting.
C20_Step ==
  SaveCompletes =>
    IF settled.ok
      THEN settled.id \in DOMAIN items' =>
             ~items'[settled.id].isEditing /\ ~items'[settled.id].isSubmitting
      ELSE /\ settled.id \in DOMAIN items'
           /\ items'[settled.id].isEditing
           /\ ~items'[settled.id].isSubmitting
           /\ items'[settled.id].error = "Failed to update todo. Please try again."

C20_FailedSaveKeepsForm == [][C20_Step]_vars

\* C21: no two entries of the Session's list have the same id.
C21_UniqueIds ==
  \A i, j \in DOMAIN todos : todos[i].id = todos[j].id => i = j

\* C22: once no request is in flight and no continuation is pending, every
\* record the Store holds for the user, each created by a create of this
\* Session that succeeded and not deleted since, has an entry in the list.
C22_CreatedPresent ==
  net = EmptyBag /\ settled = NoCall =>
    \A id \in DOMAIN db :
      db[id].userId = SessionUser => \E i \in DOMAIN todos : todos[i].id = id

Listed(list, id) == \E i \in DOMAIN list : list[i].id = id

Deleting(id) ==
  \/ \E q \in InFlight : q.op = "deleteTodo" /\ q.id = id
  \/ settled.op = "deleteTodo" /\ settled.id = id

C23_Step ==
  \A id \in Ids :
    Gone(id) /\ ~Deleting(id) /\ ~Listed(todos, id) => ~Listed(todos', id)

\* C23: once the Session's delete of a record has succeeded and its response
\* has taken the entry out of the list, no later step puts an entry with that
\* id back into the list.
C23_DeletedStaysOut == [][C23_Step]_vars

C24_Step ==
  /\ \A q \in InFlight : Settles(q) => (error' # Null <=> ~Ok(q.status))
  /\ error' # error => \E q \in InFlight : Settles(q)

\* C24: error is non-null exactly when the operation of the Session that
\* completed last failed: it is null before any operation has completed, the
\* handling of a successful response sets it to null, the handling of a failure
\* sets it to a message, and nothing else changes it.
C24_ErrorTracksLastOperation ==
  /\ error = Null
  /\ [][C24_Step]_vars
  /\ [](settled # NoCall => (error # Null <=> ~settled.ok))

\* the initial load failed, the list was never loaded, and a create has just
\* succeeded and cleared the error
C24_Witness ==
  /\ ~Fetching
  /\ ~fetched
  /\ events = 1
  /\ settled.op = "addTodo"
  /\ settled.ok
  /\ error = Null
  /\ Len(todos) = 1

\* C25: loading is true in every state in which a list fetch is in flight,
\* overlapping fetches included.
C25_LoadingWhileFetching == Fetching => loading

\* the mutation requests a step sends
Starts(q) == q.op \in Mutations /\ q.pc = "sent" /\ Copies(q, net') > Copies(q, net)

C26_Step ==
  /\ (\E q \in BagToSet(net') : Starts(q)) => UNCHANGED <<todos, loading, error>>
  /\ \A q \in InFlight :
       Settles(q) /\ q.op \in Mutations =>
         /\ loading' = loading
         /\ Others(todos', q.id) = Others(todos, q.id) \/ q.op = "addTodo"
         /\ q.op = "addTodo" => todos' = todos \/ Tail(todos') = todos
         /\ q.op \in {"updateTodo", "toggleComplete"} =>
              /\ Len(todos') = Len(todos)
              /\ \A i \in DOMAIN todos : todos[i].id # q.id => todos'[i] = todos[i]
              /\ ~Listed(todos, q.id) => todos' = todos

\* C26: a mutation on id X changes, of the Session's list, loading flag and
\* error, nothing but the entries with id X (or the new front entry) and the
\* error: sending it changes none of them; handling its response leaves loading
\* alone, leaves the entries with another id and their order alone, keeps the
\* length on update and toggle, and leaves the list alone when an update or
\* toggle response is for an id the list does not hold.
C26_MutationIsLocal == [][C26_Step]_vars

\* a toggle has just succeeded for a record that a delete had meanwhile taken
\* out of the list
C26_Witness ==
  /\ settled.op = "toggleComplete"
  /\ settled.ok
  /\ Gone(settled.id)
  /\ ~Listed(todos, settled.id)

\* the record has the value of the body in every field the handler reads
Applied(rec, body) ==
  \A k \in {"title", "description", "completed"} : Has(body, k) => rec[k] = body[k]

C27_Step ==
  \A q \in InFlight :
    Writes(q) /\ q.method = "PATCH" /\ Exists(db, q.id) =>
      /\ resp'.status = 200
      /\ Applied(db'[q.id], q.body)
      \* the same request once more, on the table the first one left
      /\ PATCH_check(db', q.caller, q.id).status = 0
      /\ PATCH_write(db', q.id, q.body) = Json(200, db'[q.id])
      /\ PATCH_db(db', q.id, q.body) = db'
      \* a write that finds the body already applied changes nothing
      /\ Applied(db[q.id], q.body) => db' = db /\ resp'.body = db[q.id]

\* C27: PATCH is idempotent on the Store: the owner's PATCH of a record is
\* answered 200, and the same body applied again to the record it left is
\* answered 200 too and leaves title, description and completed as they were
\* after the first.
C27_PatchIdempotent == [][C27_Step]_vars

\* of two PATCH requests of one record with the same body the first was
\* written and answered 200 and changed the record; the second awaits its write
C27_Witness ==
  /\ resp.method = "PATCH"
  /\ resp.status = 200
  /\ resp.body.title = "b" /\ resp.body.description = "d"
  /\ \E r \in InFlight :
       /\ r.method = "PATCH" /\ r.id = resp.id /\ r.pc = "checked"
       /\ r.body = [title |-> "b", description |-> "d"]
       /\ r.caller = resp.caller
       /\ Exists(db, r.id) /\ Applied(db[r.id], r.body)

\* the creates the form awaits: requests in flight, and the one whose
\* promise is settled and whose continuation has not run yet
Creates == {q \in InFlight : q.op = "addTodo"}
AddPending == Creates # {} \/ settled.op = "addTodo"

C28_Step ==
  \* while the create is pending the inputs keep what was typed
  /\ form.isSubmitting /\ form'.isSubmitting =>
       form'.title = form.title /\ form'.description = form.description
  \* the continuation of a successful create
  /\ settled.op = "addTodo" /\ settled.ok /\ settled' = NoCall =>
       /\ form'.title = "" /\ form'.description = ""
       /\ form'.success = "Todo added successfully!"
       /\ form'.error = Null
       /\ ~form'.isSubmitting
  \* the continuation of a failed create
  /\ settled.op = "addTodo" /\ ~settled.ok /\ settled' = NoCall =>
       /\ form'.title = form.title /\ form'.description = form.description
       /\ Trim(form'.title) # ""
       /\ form'.error = "Failed to create todo. Please try again."
       /\ form'.success = form.success
       /\ ~form'.isSubmitting
  \* nothing else shows the success message or the failure message
  /\ form'.success # Null /\ form'.success # form.success =>
       settled.op = "addTodo" /\ settled.ok
  /\ form'.error = "Failed to create todo. Please try again." /\ form'.error # form.error =>
       settled.op = "addTodo" /\ ~settled.ok

\* C28: the create form has at most one create in flight; isSubmitting is true,
\* and so the inputs and the button are disabled, exactly while addTodo is
\* pending, and the request carries the typed values, trimmed; the inputs are
\* cleared and the success message is shown only by the continuation of a
\* successful addTodo; after a failed one the inputs keep the typed values and
\* the form shows "Failed to create todo. Please try again."; isSubmitting is
\* false again in both cases.
C28_OneCreateAtATime ==
  /\ [](\A q1, q2 \in Creates : q1 = q2 /\ Copies(q1, net) = 1)
  /\ [](settled.op = "addTodo" => Creates = {})
  /\ [](form.isSubmitting <=> AddPending)
  /\ [](\A q \in Creates : q.body.title = Trim(form.title)
                           /\ q.body.description = OrNull(Trim(form.description)))
  /\ [][C28_Step]_vars

\* a create has failed: the form is enabled again, shows the failure message
\* and still holds the typed title and description, while the success message
\* of an earlier create is still shown
C28_Witness ==
  /\ ~form.isSubmitting
  /\ ~AddPending
  /\ form.error = "Failed to create todo. Please try again."
  /\ form.title = " a " /\ form.description = " d"
  /\ form.success = "Todo added successfully!"
  /\ Len(todos) = 1

====
